---- MODULE Spec2Model ----
(***************************************************************************)
(* Slow-SQL monitor for managed database instances (export-job strategy). *)
(* The module models HuaweiRDSSlowSQLMonitor: the export-job poller        *)
(* (wait_for_download_link), the per-instance chain of process_instance    *)
(* (download, parse, cursor filter, alert file, webhook upload and send,   *)
(* cursor advance) and the run loop over the configured instances.         *)
(*                                                                         *)
(* Time.  A datetime is modelled by its civil reading `local` (in ticks    *)
(* since civil midnight of day 0), and by its tzinfo: `aware` tells        *)
(* whether a UTC offset is attached and `off` is that offset in ticks.     *)
(* One tick is 1/TicksPerDay of a day; with TicksPerDay = 3 a tick is      *)
(* eight hours, so that Asia/Shanghai (+08:00) is an offset of one tick.   *)
(***************************************************************************)
EXTENDS Integers, Sequences, FiniteSets, TLC

\* ------------------------------------------------------------------------
\* Bounds of the model
\* ------------------------------------------------------------------------
MaxClock == 2
MaxRecords == 2
MaxList == 2
MaxLines == 4
MaxSeconds == 70
MaxItems == 3
MaxCycles == 3

\* ------------------------------------------------------------------------
\* Program constants
\* ------------------------------------------------------------------------
TicksPerDay == 3
ShanghaiOffset == 1
max_retries == 10
retry_interval == 5
SecondsPerMinute == 60
ShanghaiSeconds == 28800

\* Python's None
None == "None"

instances == <<"rds-a", "rds-b">>
Instances == {instances[k] : k \in 1..Len(instances)}

\* ------------------------------------------------------------------------
\* datetime values
\* ------------------------------------------------------------------------
Offsets == {0, ShanghaiOffset}
Locals == 0..(MaxClock + ShanghaiOffset)
Naive(l) == [aware |-> FALSE, off |-> 0, local |-> l]
Aware(l, o) == [aware |-> TRUE, off |-> o, local |-> l]
Timestamps == {Naive(l) : l \in Locals} \cup {Aware(l, o) : l \in Locals, o \in Offsets}

\* datetime.now(ZoneInfo('Asia/Shanghai')) when the UTC clock reads n
NowShanghai(n) == Aware(n + ShanghaiOffset, ShanghaiOffset)

\* datetime.date(): the civil date of the datetime's own reading; the
\* tzinfo plays no part in it
Date(t) == t.local \div TicksPerDay

\* Ordering of two datetimes: two aware datetimes compare by their UTC
\* instant, two naive ones by their civil reading; comparing a naive with
\* an aware datetime raises TypeError.
Comparable(a, b) == a.aware = b.aware
Key(t) == IF t.aware THEN t.local - t.off ELSE t.local
Greater(a, b) == Key(a) > Key(b)

\* today = datetime.now(ZoneInfo('Asia/Shanghai')).date()
Today(n) == Date(NowShanghai(n))

\* ------------------------------------------------------------------------
\* Slow-query records.  A downloaded log is represented by the sequence of
\* record candidates that the line scan of parse_slow_log flushes, in file
\* order; a candidate carries the timestamp of its "# Time:" marker, as
\* datetime.fromisoformat read it (naive when the marker has no UTC offset).
\* ------------------------------------------------------------------------
SqlTexts == {"select sleep(3)"}
SlowQuery == [timestamp : Timestamps, sql_text : SqlTexts]

\* The database writes no record dated after the present moment.
Written(n) == {q \in SlowQuery : Key(q.timestamp) <= n + (IF q.timestamp.aware THEN 0 ELSE ShanghaiOffset)}

RECURSIVE SeqsUpTo(_, _)
SeqsUpTo(S, n) == IF n = 0 THEN {<<>>} ELSE LET shorter == SeqsUpTo(S, n - 1) IN shorter \cup {Append(s, x) : s \in {t \in shorter : Len(t) = n - 1}, x \in S}

Logs(n) == SeqsUpTo(Written(n), MaxRecords)

\* _is_valid_query: the candidate's own date is today's date in Shanghai
IsValidQueryNotLater(query, n) == Date(query.timestamp) = Today(n) /\ query.timestamp.local <= NowShanghai(n).local
IsValidQuery(query, n) == Date(query.timestamp) = Today(n)

ValidQueries(log, n) == SelectSeq(log, LAMBDA q : IsValidQuery(q, n))

\* slow_queries.sort(key=lambda x: x.timestamp): a stable sort; it compares
\* the keys of a list of two or more elements, and raises TypeError when a
\* naive and an aware timestamp meet.
SortRaises(qs) == \E a, b \in 1..Len(qs) : ~Comparable(qs[a].timestamp, qs[b].timestamp)

RECURSIVE Insert(_, _)
Insert(sorted, q) == IF sorted = <<>> THEN <<q>> ELSE IF Greater(sorted[Len(sorted)].timestamp, q.timestamp) THEN Append(Insert(SubSeq(sorted, 1, Len(sorted) - 1), q), sorted[Len(sorted)]) ELSE Append(sorted, q)

RECURSIVE SortByTimestamp(_)
SortByTimestamp(qs) == IF qs = <<>> THEN <<>> ELSE Insert(SortByTimestamp(SubSeq(qs, 1, Len(qs) - 1)), qs[Len(qs)])

\* the cursor filter of process_instance:
\*   [query for query in slow_queries if query.timestamp > last_time]
FilterRaises(qs, last_time) == \E a \in 1..Len(qs) : ~Comparable(qs[a].timestamp, last_time)

\* (IsNewOrSame: the comparison written `>=`)
IsNewOrSame(query, last_time) == ~Greater(last_time, query.timestamp)
IsNew(query, last_time) == Greater(query.timestamp, last_time)

RECURSIVE NewQueries(_, _)
NewQueries(qs, last_time) == IF qs = <<>> THEN <<>> ELSE (IF IsNew(Head(qs), last_time) THEN <<Head(qs)>> ELSE <<>>) \o NewQueries(Tail(qs), last_time)

\* max(query.timestamp for query in new_queries): the first greatest one
RECURSIVE MaxFrom(_, _)
MaxFrom(best, rest) == IF rest = <<>> THEN best ELSE MaxFrom(IF Greater(Head(rest).timestamp, best) THEN Head(rest).timestamp ELSE best, Tail(rest))

\* (FirstTimestamp: the cursor taken from the first record of the batch)
FirstTimestamp(qs) == Head(qs).timestamp
MaxTimestamp(qs) == MaxFrom(Head(qs).timestamp, Tail(qs))

\* ------------------------------------------------------------------------
\* parse_slow_log, line by line.  A line of the file is the prefix that the
\* parser tests with startswith once the line is stripped (kind) and the
\* rest of the line (rest); a line of kind "sql" starts with none of the
\* prefixes and its rest is the line as the file has it, a line of kind ""
\* is blank.
\* ------------------------------------------------------------------------
Line(kind, rest) == [kind |-> kind, rest |-> rest]

\* line.strip(), on the text of a line that starts with no prefix
Strip(text) == IF text = "  from t;" THEN "from t;" ELSE text

\* the value of an expression that may raise
Value(v) == [raises |-> None, value |-> v]
Raises(e) == [raises |-> e, value |-> 0]

\* datetime.fromisoformat: midnight of day 0 is 2024-01-01T00:00:00
Fromisoformat(text) ==
  CASE text = "2024-01-01T08:00:00" -> Value(Naive(1))
    [] text = "2024-01-01T16:00:00" -> Value(Naive(2))
    [] text = "2024-01-01T16:00:00+08:00" -> Value(Aware(2, ShanghaiOffset))
    [] OTHER -> Raises("ValueError")

\* float(): the numerals of the model are whole numbers
Float(text) ==
  CASE text = "3" -> Value(3)
    [] text = "100" -> Value(100)
    [] OTHER -> Raises("ValueError")

\* line.split('Time: ')[1] and line.split('# User@Host: ')[1]: strip() has
\* removed the blank after the colon of a line that ends there
SplitAfter(line) == IF line.rest = "" THEN Raises("IndexError") ELSE Value(line.rest)

\* re.findall(r'(\w+):\s*([\d.]+)', line) on a '# Query_time:' line
FindPairs(rest) ==
  CASE rest = "3 Rows_examined: 100" -> <<<<"Query_time", "3">>, <<"Rows_examined", "100">>>>
    [] rest = "3 Start: 2024-01-01T08:00:00" -> <<<<"Query_time", "3">>>>
    [] rest = "3 Start: soon" -> <<<<"Query_time", "3">>>>
    [] rest = "1.2.3" -> <<<<"Query_time", "1.2.3">>>>
    [] OTHER -> <<>>

\* re.search(r'Start:\s*([^\s]+)', line): the matched group, or None
StartMatch(rest) ==
  CASE rest = "3 Start: 2024-01-01T08:00:00" -> "2024-01-01T08:00:00"
    [] rest = "3 Start: soon" -> "soon"
    [] OTHER -> None

\* 'Full_scan: Yes' in line
FullScanYes(rest) == rest = "No Full_scan: Yes"

\* a dict: the function from the keys that are set to their values
EmptyDict == <<>>
Put(dict, key, v) == (key :> v) @@ dict
Get(dict, key, default) == IF key \in DOMAIN dict THEN dict[key] ELSE default

\* one (key, value) pair of the loop over pairs
SetPair(query, pair) ==
  LET key == pair[1]
      number == Float(pair[2])
  IN CASE key \in {"Query_time", "Lock_time", "Rows_sent", "Rows_examined"} ->
            IF number.raises # None THEN Raises(number.raises)
            ELSE Value(Put(query, key, number.value))
       [] key = "Thread_id" -> Value(Put(query, key, pair[2]))
       [] OTHER -> Value(query)

RECURSIVE SetPairs(_, _)
SetPairs(query, pairs) ==
  IF pairs = <<>> THEN Value(query)
  ELSE LET first == SetPair(query, Head(pairs)) IN
         IF first.raises # None THEN first ELSE SetPairs(first.value, Tail(pairs))

\* '\n'.join(sql_text)
RECURSIVE Join(_)
Join(texts) == IF Len(texts) = 1 THEN texts[1] ELSE texts[1] \o "\n" \o Join(Tail(texts))

\* _create_slow_query: the fields the file did not give take their defaults
\* (db_name, end_time and the tmp_table flags are read and defaulted in the
\* same way as thread_id, start_time and full_scan)
CreateSlowQuery(query) ==
  [timestamp |-> query["timestamp"],
   user_host |-> Get(query, "user_host", ""),
   query_time |-> Get(query, "Query_time", 0),
   lock_time |-> Get(query, "Lock_time", 0),
   rows_sent |-> Get(query, "Rows_sent", 0),
   rows_examined |-> Get(query, "Rows_examined", 0),
   thread_id |-> Get(query, "Thread_id", ""),
   sql_text |-> Get(query, "sql_text", ""),
   start_time |-> Get(query, "start_time", query["timestamp"]),
   full_scan |-> Get(query, "full_scan", FALSE)]

\* the locals of parse_slow_log, and the exception that ended the scan
Scan(queries, query, texts, e) == [slow_queries |-> queries, current_query |-> query, sql_text |-> texts, raised |-> e]
ScanStart == Scan(<<>>, EmptyDict, <<>>, None)
Raise(st, e) == [st EXCEPT !.raised = e]

\* `if current_query and sql_text:`
FlushableWithUser(st) == st.current_query # EmptyDict /\ st.sql_text # <<>> /\ "user_host" \in DOMAIN st.current_query
Flushable(st) == st.current_query # EmptyDict /\ st.sql_text # <<>>

\* the candidate in the accumulator is closed: it is kept when it is valid
Flush(st, n) ==
  IF Flushable(st)
    THEN LET query == Put(st.current_query, "sql_text", Join(st.sql_text)) IN
           IF IsValidQuery(query, n)
             THEN [st EXCEPT !.slow_queries = Append(@, CreateSlowQuery(query))]
             ELSE st
    ELSE st

\* `current_query = {'timestamp': ...}` and `sql_text = []`
StartQueryKeepingText(st, t) == [st EXCEPT !.current_query = [timestamp |-> t]]
StartQuery(st, t) == [st EXCEPT !.current_query = [timestamp |-> t], !.sql_text = <<>>]

TimeLine(st, line, n) ==
  LET flushed == Flush(st, n)
      text == SplitAfter(line)
      t == Fromisoformat(text.value)
  IN IF text.raises # None THEN Raise(flushed, text.raises)
     ELSE IF t.raises # None THEN Raise(flushed, t.raises)
     ELSE StartQuery(flushed, t.value)

UserHostLine(st, line) ==
  LET text == SplitAfter(line) IN
    IF st.current_query = EmptyDict THEN st
    ELSE IF text.raises # None THEN Raise(st, text.raises)
    ELSE [st EXCEPT !.current_query = Put(@, "user_host", text.value)]

QueryTimeLine(st, line) ==
  LET pairs == SetPairs(st.current_query, FindPairs(line.rest))
      start == StartMatch(line.rest)
      t == Fromisoformat(start)
  IN IF st.current_query = EmptyDict THEN st
     ELSE IF pairs.raises # None THEN Raise(st, pairs.raises)
     ELSE IF start = None THEN [st EXCEPT !.current_query = pairs.value]
     ELSE IF t.raises # None THEN Raise(st, t.raises)
     ELSE [st EXCEPT !.current_query = Put(pairs.value, "start_time", t.value)]

QcHitLine(st, line) ==
  IF st.current_query = EmptyDict THEN st
  ELSE [st EXCEPT !.current_query = Put(@, "full_scan", FullScanYes(line.rest))]

\* a line that starts with none of the prefixes of headers and banners
\* (SqlLineWithSet: the test of 'SET timestamp=' missing)
SqlLineWithSet(st, line) == IF st.current_query = EmptyDict THEN st ELSE [st EXCEPT !.sql_text = Append(@, Strip(line.rest))]
SqlLine(st, line) == IF st.current_query = EmptyDict \/ line.kind = "SET timestamp=" THEN st ELSE [st EXCEPT !.sql_text = Append(@, Strip(line.rest))]

\* the body of `for line in f:`; a blank line, a line of the banner and a
\* comment line of no known prefix are passed over
ParseLine(st, line, n) ==
  CASE line.kind = "# Time:" -> TimeLine(st, line, n)
    [] line.kind = "# User@Host:" -> UserHostLine(st, line)
    [] line.kind = "# Query_time:" -> QueryTimeLine(st, line)
    [] line.kind = "# QC_Hit:" -> QcHitLine(st, line)
    [] line.kind \in {"sql", "SET timestamp="} -> SqlLine(st, line)
    [] OTHER -> st

RECURSIVE ScanLines(_, _, _)
ScanLines(st, lines, n) ==
  IF lines = <<>> \/ st.raised # None THEN st
  ELSE ScanLines(ParseLine(st, Head(lines), n), Tail(lines), n)

\* the outcome of a call: the exception raised, or the list returned
Raised(e) == [raised |-> e, slow_queries |-> <<>>]
Returned(queries) == [raised |-> None, slow_queries |-> queries]

\* parse_slow_log on a file of the given lines, called at time n
parse_slow_log(lines, n) ==
  LET scanned == ScanLines(ScanStart, lines, n)
      last == Flush(scanned, n)
  IN IF scanned.raised # None THEN Raised(scanned.raised)
     ELSE IF SortRaises(last.slow_queries) THEN Raised("TypeError")
     ELSE Returned(SortByTimestamp(last.slow_queries))

\* The lines that the files of the model are made of: well-formed lines of
\* every kind and a time marker that is not an ISO date ...
SlowLogLines ==
  {Line("# Time:", "2024-01-01T08:00:00"),
   Line("# Time:", "2024-01-01T16:00:00"),
   Line("# Time:", "yesterday"),
   Line("# User@Host:", "app[app] @ [10.0.0.1]"),
   Line("# Query_time:", "3 Rows_examined: 100"),
   Line("# QC_Hit:", "No Full_scan: Yes"),
   Line("SET timestamp=", "1704096000;"),
   Line("sql", "select sleep(3);"),
   Line("sql", "from t;")}

\* ... and the lines of files whose headers are damaged
DamagedLogLines ==
  {Line("# Time:", "2024-01-01T08:00:00"),
   Line("# Time:", ""),
   Line("# User@Host:", ""),
   Line("# Query_time:", "1.2.3"),
   Line("# Query_time:", ""),
   Line("# Query_time:", "3 Start: soon"),
   Line("# Query_time:", "3 Start: 2024-01-01T08:00:00"),
   Line("sql", "select sleep(3);")}

\* ... and the lines of files in which the text of a statement comes with
\* indentation and blank lines, among lines of the banner and comments of
\* no known prefix
TextLogLines ==
  {Line("# Time:", "2024-01-01T08:00:00"),
   Line("sql", "select sleep(3)"),
   Line("sql", "  from t;"),
   Line("", ""),
   Line("SET timestamp=", "1704096000;"),
   Line("/usr/local/mysql/bin/mysqld", ", Version: 8.0.28"),
   Line("#", " administrator command: Ping")}

SlowLogFiles == SeqsUpTo(SlowLogLines, MaxLines)
TextLogFiles == SeqsUpTo(TextLogLines, MaxLines)
DamagedLogFiles == SeqsUpTo(DamagedLogLines, MaxLines)

\* ------------------------------------------------------------------------
\* Export-job API responses (request_download_link)
\* ------------------------------------------------------------------------
Links == {None, "", "https://obs/slowlog_download_1"}
\* a list entry that did not succeed carries no link
Entries == [status : {"SUCCESS"}, file_link : Links] \cup [status : {"FAILED"}, file_link : {None}]
\* request_download_link returns None after a transport or API error
NoResult == [status |-> "ERROR", list |-> <<>>]
\* only a finished export job lists files
Results == {NoResult} \cup [status : {"FINISH"}, list : SeqsUpTo(Entries, MaxList)] \cup [status : {"FAILED", "CREATING"}, list : {<<>>}]

\* `not download_link`
Falsy(link) == link = None \/ link = ""

\* the test of wait_for_download_link on a FINISH response
FirstSucceeded(file_list) == file_list # <<>> /\ file_list[1].status = "SUCCESS"

\* ------------------------------------------------------------------------
\* Webhook replies (upload and send)
\* ------------------------------------------------------------------------
WebhookReplies == {"errcode_0", "errcode_nonzero", "errcode_absent", "exception"}
\* `result.get('errcode') == 0`
\* (Errcode0OrAbsent: the test written `result.get('errcode', 0) == 0`)
Errcode0OrAbsent(reply) == reply \in {"errcode_0", "errcode_absent"}
Errcode0(reply) == reply = "errcode_0"

NoReply == "no call"

\* wait_for_download_link's reading of one response:
\*   "error"   request_download_link returned None       -> (False, None)
\*   "success" FINISH and the first list entry SUCCESS   -> (True, its link)
\*   "failed"  FAILED                                    -> (False, None)
\*   "retry"   anything else: time.sleep(retry_interval), next attempt
\* (PollDecisionStrict: a FINISH response without a successful first entry
\* read as a failure)
PollDecisionStrict(r) == IF r = NoResult THEN "error" ELSE IF r.status = "FINISH" /\ FirstSucceeded(r.list) THEN "success" ELSE IF r.status \in {"FINISH", "FAILED"} THEN "failed" ELSE "retry"
PollDecision(r) == IF r = NoResult THEN "error" ELSE IF r.status = "FINISH" /\ FirstSucceeded(r.list) THEN "success" ELSE IF r.status = "FAILED" THEN "failed" ELSE "retry"

\* process_instance goes on to the download unless
\*   `not success or not download_link`
\* (Succeeded: the test written `not success` alone)
Succeeded(ok, link) == ok
HasLink(ok, link) == ok /\ ~Falsy(link)

\* `if new_queries:` in process_instance and `if not slow_queries: return None`
\* in _generate_alert_file
\* (NothingNewUnchecked: both tests missing)
NothingNewUnchecked(queries) == FALSE
NothingNew(queries) == queries = <<>>

\* the cursor after `if self.send_alert(instance_id, alert_file):`
\* (CursorAfterAttempt: the assignment made without looking at send_alert's result)
CursorAfterAttempt(last_time, ok, batch) == MaxTimestamp(batch)
CursorAfterSend(last_time, ok, batch) == IF ok THEN MaxTimestamp(batch) ELSE last_time

\* ------------------------------------------------------------------------
\* State
\* ------------------------------------------------------------------------
\* ------------------------------------------------------------------------
\* download_slow_log and _delete_old_slowlog
\* ------------------------------------------------------------------------
\* the links that a finished export job can give for an instance: the
\* file names of an instance are its own; a name may lack the prefix, or
\* the path may end with '/'
LinksOf(inst) ==
  (IF inst = "rds-a"
     THEN {"https://obs/rds-a/slowlog_download_a1", "https://obs/rds-a/slowlog_download_a2"}
     ELSE {"https://obs/rds-b/slowlog_download_b1"})
  \cup {"https://obs/export.log", "https://obs/"}

\* os.path.basename(urlparse(download_link).path)
Basename(link) ==
  CASE link = "https://obs/rds-a/slowlog_download_a1" -> "slowlog_download_a1"
    [] link = "https://obs/rds-a/slowlog_download_a2" -> "slowlog_download_a2"
    [] link = "https://obs/rds-b/slowlog_download_b1" -> "slowlog_download_b1"
    [] link = "https://obs/slowlog_download_1" -> "slowlog_download_1"
    [] link = "https://obs/export.log" -> "export.log"
    [] OTHER -> ""

\* f"slowlog_download_{datetime.now().strftime('%Y%m%d_%H%M%S')}"
Stamped(n) == "slowlog_download_" \o ToString(n)

FileName(link, n) == IF Basename(link) = "" THEN Stamped(n) ELSE Basename(link)

\* 'slowlog_download' in file_name
Conventional(name) == name # "export.log"

\* How the fetch ends: the whole file is written; requests.get or
\* raise_for_status raises before the file is opened; or an exception ends
\* the streamed write after the file was opened.
FetchOutcomes == {"ok", "http_error", "stream_error"}

\* the value that download_slow_log returns
PathReturnedAfterOpen(link, n, outcome) == IF outcome # "http_error" THEN FileName(link, n) ELSE None
PathReturned(link, n, outcome) == IF outcome = "ok" THEN FileName(link, n) ELSE None

\* a file of download_dir: its name, the instance it was downloaded for,
\* and whether its write was cut short
File(name, inst, outcome) == [name |-> name, owner |-> inst, partial |-> outcome = "stream_error"]

\* the files that _delete_old_slowlog tries to remove
OldFiles(dir, new_file_name) == {f \in dir : Conventional(f.name) /\ f.name # new_file_name}

\* the old files that one call may find it cannot remove: os.remove raises
\* for none of them, or for the one file of a directory that holds no other
Undeletable(dir, old) == {{}} \cup {{f} : f \in {g \in old : dir = {g}}}

\* download_dir after the call, in which os.remove has failed for the
\* files of kept: open(file_path, 'wb') replaces a file of the same name
\* (DirAfterFetchFirst: the old files removed once the fetch has answered)
DirAfterFetchFirst(dir, inst, link, n, outcome, kept) ==
  LET name == FileName(link, n)
      remaining == (dir \ OldFiles(dir, name)) \cup kept
  IN IF outcome = "http_error" THEN dir
     ELSE {f \in remaining : f.name # name} \cup {File(name, inst, outcome)}
DirAfterDownload(dir, inst, link, n, outcome, kept) ==
  LET name == FileName(link, n)
      remaining == (dir \ OldFiles(dir, name)) \cup kept
  IN IF outcome = "http_error" THEN remaining
     ELSE {f \in remaining : f.name # name} \cup {File(name, inst, outcome)}

\* ------------------------------------------------------------------------
\* RDSSlowSQLMonitor (query-window strategy): records and their grouping
\* ------------------------------------------------------------------------
\* The queries of one cycle of run, in order: an instance with no database
\* configured is queried once, an instance with databases configured once
\* per database (get_instance_databases).
Targets == <<[instance_id |-> "rds-a", db_name |-> None], [instance_id |-> "rds-b", db_name |-> "orders"]>>

\* An item of SQLSlowRecord: DBName is None when the key is absent, and
\* ExecutionStartTime is a UTC time, or None when the key is absent.
Items == [DBName : {"orders", "users", None}, ExecutionStartTime : {"2024-01-01T00:00:05Z"}]
           \cup [DBName : {"orders"}, ExecutionStartTime : {None}]

\* What get_slow_sql_records returns: None on an exception, else the map of
\* the response body, which may lack 'Items'.
NoRecords == [body |-> "None", SQLSlowRecord |-> <<>>]
ApiResults == {NoRecords, [body |-> "no Items", SQLSlowRecord |-> <<>>]} \cup [body : {"Items"}, SQLSlowRecord : SeqsUpTo(Items, MaxRecords)]

\* `if slow_sql_records:` in run
Truthy(info) == info.body # "None"

\* the two early returns of send_wechat_alert
\* (NothingToAlertOnNone: the test written `if slow_sql_info is None`)
NothingToAlertOnNone(info) == info.body = "None"
NothingToAlert(info) == info.body # "Items" \/ info.SQLSlowRecord = <<>>

\* item.get('DBName', 'Unknown')
\* (DbNameOrNone: the lookup written item.get('DBName'))
DbNameOrNone(item) == item.DBName
DbNameOf(item) == IF item.DBName = None THEN "Unknown" ELSE item.DBName

\* db_groups: the groups in the order in which their names first appear
RECURSIVE GroupItems(_, _)
GroupItems(groups, items) ==
  IF items = <<>> THEN groups
  ELSE LET item == Head(items)
           known == {k \in 1..Len(groups) : groups[k].db_name = DbNameOf(item)}
       IN IF known = {}
            THEN GroupItems(Append(groups, [db_name |-> DbNameOf(item), items |-> <<item>>]), Tail(items))
            ELSE GroupItems([k \in 1..Len(groups) |-> IF k \in known THEN [groups[k] EXCEPT !.items = Append(@, item)] ELSE groups[k]], Tail(items))

\* datetime.strptime(item.get('ExecutionStartTime'), '%Y-%m-%dT%H:%M:%SZ')
Strptime(text) ==
  CASE text = "2024-01-01T00:00:05Z" -> None
    [] text = None -> "TypeError"
    [] OTHER -> "ValueError"

\* the exception that ends the writing of a group's file, or None
WriteRaises(group) ==
  LET bad == {k \in 1..Len(group.items) : Strptime(group.items[k].ExecutionStartTime) # None}
  IN IF bad = {} THEN None ELSE Strptime(group.items[CHOOSE k \in bad : \A j \in bad : k <= j].ExecutionStartTime)

\* the temporary file of a group: its name is made of the instance, the
\* database and the time
TempFile(inst, db, n) == [instance_id |-> inst, db_name |-> db, timestamp |-> n]

NoFile == TempFile(None, None, 0)

\* the report of a group, as written to its file: the header lines name
\* the database and give len(db_items); one section follows per item, in
\* the order of db_items
Report(file, group) == [file |-> file, db_name |-> group.db_name, count |-> Len(group.items), items |-> group.items]

\* upload_file returns result.get('media_id') when errcode is 0, else None
MediaId(reply) == IF Errcode0(reply) THEN "media_id" ELSE None

\* The query results given to send_wechat_alert when it is studied on its
\* own: items that SQLHash tells apart, of a database, of a database that
\* is named 'Unknown', or without the key DBName.
AlertItems == [DBName : {"orders", "Unknown", None}, SQLHash : {"h1", "h2"}, ExecutionStartTime : {"2024-01-01T00:00:05Z"}]
                \cup [DBName : {"orders"}, SQLHash : {"h1"}, ExecutionStartTime : {None}]
AlertInfos == {NoRecords, [body |-> "no Items", SQLSlowRecord |-> <<>>]} \cup [body : {"Items"}, SQLSlowRecord : SeqsUpTo(AlertItems, MaxItems)]

\* ------------------------------------------------------------------------
\* get_time_range.  Here a datetime is an instant, in seconds, and the UTC
\* offset in which it is read.
\* ------------------------------------------------------------------------
\* datetime.now(ZoneInfo("Asia/Shanghai"))
NowInShanghai(t) == [instant |-> t, offset |-> ShanghaiSeconds]
\* astimezone(ZoneInfo("UTC"))
AsUtc(dt) == [dt EXCEPT !.offset = 0]
\* dt - timedelta(minutes=1)
MinuteBefore(dt) == [dt EXCEPT !.instant = @ - SecondsPerMinute]
\* strftime('%Y-%m-%dT%H:%MZ'): the text names a minute of the civil
\* reading; it is represented by the civil second at which that minute starts
\* (StrftimeToSecond: the format written '%Y-%m-%dT%H:%M:%SZ')
StrftimeToSecond(dt) == dt.instant + dt.offset
Strftime(dt) == ((dt.instant + dt.offset) \div SecondsPerMinute) * SecondsPerMinute

get_time_range(t) ==
  LET utc_now == AsUtc(NowInShanghai(t))
      utc_start == MinuteBefore(utc_now)
  IN [start_time |-> Strftime(utc_start), end_time |-> Strftime(utc_now), called |-> TRUE]

\* The configured values of query_interval, in seconds, in the runs that
\* follow the windows of successive cycles: one shorter and one longer than
\* the window.
QueryIntervals == {30, 90}

\* DescribeSlowLogRecords answers with the records whose execution started
\* in the window of the request, from start_time up to end_time
InWindow(range, q) == range.start_time <= q /\ q < range.end_time

\* How many times a slow query has been reported after one more cycle: run
\* hands whatever the query returned to send_wechat_alert, and no state
\* about earlier cycles is consulted
\* (AlertsAfterOnce: a record reported before is not reported again)
AlertsAfterOnce(count, range, q) == IF InWindow(range, q) THEN 1 ELSE count
AlertsAfter(count, range, q) == IF InWindow(range, q) THEN count + 1 ELSE count

VARIABLES
  now,                \* the UTC clock, in ticks
  last_process_time,  \* self.last_process_time: instance id -> datetime
  pc,                 \* position of the run loop
  idx,                \* position of `for instance_id in self.instances`
  retry,              \* the loop counter i of wait_for_download_link
  waited,             \* the seconds that wait_for_download_link has slept in its call
  result,             \* the last response of request_download_link
  success,            \* wait_for_download_link's returned pair
  download_link,
  log,                \* the candidates of the downloaded file
  slow_queries,       \* parse_slow_log's return value
  new_queries,        \* the records that passed the cursor filter
  upload_reply,       \* the webhook's reply to the upload of send_alert
  send_reply,         \* the webhook's reply to the message of send_alert
  sent,               \* send_alert's return value
  effects,            \* what the current process_instance call has done
  caught,             \* the exception process_instance caught, if any
  follow,             \* history: which history is kept ("nothing", "deliveries", "failures", "latest")
  delivered,          \* history: the records delivered so far for Watched (when follow is
                      \*   "latest": the latest records of the batch last delivered for it)
  failed,             \* history: the records of a failed delivery for Watched that every
                      \*   log read since has contained and no delivery has included
  file_lines,         \* the lines of the file at file_path (parse_slow_log on its own)
  first_parse,        \* the outcome of a first call of parse_slow_log on that file
  second_parse,       \* the outcome of a second call on the same file
  download_dir,       \* the files of self.download_dir (download_slow_log on its own)
  file_path,          \* what the last call of download_slow_log returned
  for_instance,       \* the instance_id of the last call of download_slow_log
  old_files,          \* the last call of _delete_old_slowlog: its new_file_name, the
                      \*   files it removed and those it logged it could not remove
  a_pc,               \* query-window monitor: position of its run loop
  a_idx,              \* query-window monitor: position of the loops over instances and databases
  slow_sql_records,   \* query-window monitor: the result of get_slow_sql_records
  db_groups,          \* query-window monitor: the groups of send_wechat_alert still to send
  temp_dir,           \* query-window monitor: the files of self.temp_dir
  temp_file,          \* query-window monitor: file_path of the group in progress
  a_effects,          \* query-window monitor: what the chain of the current query has done
  a_done,             \* query-window monitor: the queries made in the current cycle
  a_caught,           \* query-window monitor: the exception that run has caught in this cycle
  reports,            \* query-window monitor: the reports written by the send_wechat_alert call
                      \*   that is in progress or has returned
  media_id,           \* query-window monitor: what upload_file returned for the group in progress
  clock,              \* get_time_range on its own: the UTC clock, in seconds
  first_range,        \* the (start_time, end_time) of a first call of get_time_range
  second_range,       \* the (start_time, end_time) of a call one second later
                      \*   (in the runs of cycles: of the latest cycle, first_range
                      \*   being that of the cycle before it)
  query_interval,     \* cycles of the query-window monitor: self.query_interval, in seconds
  occurred,           \* cycles: the instant at which a slow query started on the instance
  reported,           \* cycles: how many times that slow query has been reported
  started             \* cycles: history, the instants at which the cycles so far ran

locals == <<retry, waited, result, success, download_link, log, slow_queries, new_queries, upload_reply, send_reply, sent>>
history == <<follow, delivered, failed>>
parsing == <<file_lines, first_parse, second_parse>>
\* the state of the operations that are studied on their own
files == <<download_dir, file_path, for_instance, old_files>>
aliyun == <<a_pc, a_idx, slow_sql_records, db_groups, temp_dir, temp_file, a_effects, a_done, a_caught, reports, media_id>>
window == <<clock, first_range, second_range, query_interval, occurred, reported, started>>
elsewhere == <<parsing, files, aliyun, window>>
vars == <<now, last_process_time, pc, idx, locals, effects, caught, history, elsewhere>>

instance_id == instances[idx]

\* the instance whose deliveries the history variables follow
Watched == instances[1]

RecordSet(qs) == {qs[k] : k \in 1..Len(qs)}
\* the records of a set that none of the set is later than
Latest(S) == {q \in S : \A r \in S : Key(r.timestamp) <= Key(q.timestamp)}

\* a call of parse_slow_log: the day of the call in Shanghai and its outcome
NotCalled == [called |-> FALSE, day |-> 0, out |-> Returned(<<>>)]
Call(lines, n) == [called |-> TRUE, day |-> Today(n), out |-> parse_slow_log(lines, n)]

NotParsing ==
  /\ file_lines = <<>>
  /\ first_parse = NotCalled
  /\ second_parse = NotCalled

NotDownloading ==
  /\ download_dir = {}
  /\ file_path = None
  /\ for_instance = None
  /\ old_files = [new_file_name |-> None, removed |-> {}, failed |-> {}]

\* RDSSlowSQLMonitor (query-window strategy) is not running
AliyunOff ==
  /\ a_pc = "off"
  /\ a_idx = 1
  /\ slow_sql_records = NoRecords
  /\ db_groups = <<>>
  /\ temp_dir = {}
  /\ temp_file = NoFile
  /\ a_effects = {}
  /\ a_done = {}
  /\ a_caught = None
  /\ reports = <<>>
  /\ media_id = None

NoRange == [start_time |-> 0, end_time |-> 0, called |-> FALSE]
NoCycles ==
  /\ query_interval = 0
  /\ occurred = 0
  /\ reported = 0
  /\ started = <<>>

NoWindow ==
  /\ clock = 0
  /\ first_range = NoRange
  /\ second_range = NoRange
  /\ NoCycles

\* the monitor after __init__ at time n, at position p
StartedAt(p, n) ==
  /\ now = n
  /\ last_process_time = [inst \in Instances |-> NowShanghai(n)]
  /\ pc = p
  /\ idx = 1
  /\ retry = 0
  /\ waited = 0
  /\ result = NoResult
  /\ success = FALSE
  /\ download_link = None
  /\ log = <<>>
  /\ slow_queries = <<>>
  /\ new_queries = <<>>
  /\ upload_reply = NoReply
  /\ send_reply = NoReply
  /\ sent = FALSE
  /\ effects = {}
  /\ caught = None
  /\ delivered = {}
  /\ failed = {}

\* the monitor constructed at 00:00 UTC, which is 08:00 in Shanghai
Started(p) == StartedAt(p, 0)

InitState == Started("wait") /\ NotParsing /\ NotDownloading /\ AliyunOff /\ NoWindow

Init == InitState /\ follow = "nothing"
InitDeliveries == InitState /\ follow = "deliveries"
InitFailures == InitState /\ follow = "failures"

\* the monitor constructed at midnight in Shanghai, with the whole civil
\* day ahead of its cursors
Midnight == 0 - ShanghaiOffset
InitAtMidnight == StartedAt("wait", Midnight) /\ NotParsing /\ NotDownloading /\ AliyunOff /\ NoWindow /\ follow = "latest"

FollowDeliveries == follow = "deliveries" /\ instance_id = Watched
FollowLatest == follow = "latest" /\ instance_id = Watched
FollowFailures == follow = "failures" /\ instance_id = Watched

\* The locals of a process_instance call that has ended.
Unwind ==
  /\ retry' = 0
  /\ waited' = 0
  /\ result' = NoResult
  /\ success' = FALSE
  /\ download_link' = None
  /\ log' = <<>>
  /\ slow_queries' = <<>>
  /\ new_queries' = <<>>
  /\ upload_reply' = NoReply
  /\ send_reply' = NoReply

\* process_instance returns
Return == pc' = "done" /\ Unwind

\* Time passes.
Tick ==
  /\ now < MaxClock
  /\ now' = now + 1
  /\ UNCHANGED <<elsewhere, last_process_time, pc, idx, locals, effects, caught, history>>

\* One iteration of the loop of wait_for_download_link: a request, and the
\* reading of its response.
RequestDownloadLink ==
  /\ pc = "wait"
  /\ \E r \in Results :
       /\ result' = r
       /\ effects' = effects \cup {"request"}
       /\ LET d == PollDecision(r) IN
            CASE d = "success" -> /\ success' = TRUE
                                  /\ download_link' = r.list[1].file_link
                                  /\ pc' = "link"
                                  /\ retry' = retry
                                  /\ waited' = waited
              [] d \in {"error", "failed"} -> /\ success' = FALSE
                                              /\ download_link' = None
                                              /\ pc' = "link"
                                              /\ retry' = retry
                                              /\ waited' = waited
              [] d = "retry" -> /\ success' = FALSE
                                /\ download_link' = None
                                /\ retry' = retry + 1
                                /\ waited' = waited + retry_interval
                                /\ pc' = IF retry + 1 < max_retries THEN "wait" ELSE "link"
  /\ UNCHANGED <<elsewhere, now, last_process_time, idx, log, slow_queries, new_queries, upload_reply, send_reply, sent, caught, history>>

\* process_instance after wait_for_download_link has returned
\* (the poller's own locals, i and result, end with its call)
CheckDownloadLink ==
  /\ pc = "link"
  /\ IF HasLink(success, download_link)
       THEN /\ pc' = "download"
            /\ retry' = 0
            /\ waited' = 0
            /\ result' = NoResult
            /\ UNCHANGED <<success, download_link, log, slow_queries, new_queries, upload_reply, send_reply, sent>>
       ELSE /\ Return
            /\ UNCHANGED sent
  /\ UNCHANGED <<elsewhere, now, last_process_time, idx, effects, caught, history>>

\* process_instance: download_slow_log and `if not file_path: return`.
\* What the call has done to the disk is recorded in effects: "fetched" for
\* a whole file, "partial file" for a write that was cut short (the names
\* of the files of download_dir are followed in SpecFiles).
DownloadSlowLog ==
  /\ pc = "download"
  /\ \E outcome \in FetchOutcomes :
       /\ effects' = effects \cup {"download"} \cup (CASE outcome = "ok" -> {"fetched"} [] outcome = "stream_error" -> {"partial file"} [] OTHER -> {})
       /\ IF PathReturned(download_link, now, outcome) # None
            THEN /\ pc' = "parse"
                 /\ UNCHANGED locals
            ELSE /\ Return
                 /\ UNCHANGED sent
  /\ UNCHANGED <<elsewhere, now, last_process_time, idx, caught, history>>

\* parse_slow_log on the downloaded file
ParseSlowLog ==
  /\ pc = "parse"
  /\ effects' = effects \cup {"parse"}
  /\ \E content \in Logs(now) :
       /\ LET accepted == ValidQueries(content, now) IN
            IF SortRaises(accepted)
              THEN /\ caught' = "TypeError"
                   /\ Return
                   /\ UNCHANGED sent
              ELSE /\ log' = content
                   /\ slow_queries' = SortByTimestamp(accepted)
                   /\ pc' = "filter"
                   /\ UNCHANGED <<retry, waited, result, success, download_link, new_queries, upload_reply, send_reply, sent, caught>>
       /\ failed' = IF FollowFailures THEN failed \cap RecordSet(content) ELSE failed
  /\ UNCHANGED <<elsewhere, now, last_process_time, idx, follow, delivered>>

\* process_instance from `if not slow_queries` to the list comprehension
FilterNewQueries ==
  /\ pc = "filter"
  /\ IF slow_queries = <<>>
       THEN /\ Return
            /\ UNCHANGED <<sent, effects, caught>>
       ELSE /\ effects' = effects \cup {"filter"}
            /\ IF FilterRaises(slow_queries, last_process_time[instance_id])
                 THEN /\ caught' = "TypeError"
                      /\ Return
                      /\ UNCHANGED sent
                 ELSE /\ new_queries' = NewQueries(slow_queries, last_process_time[instance_id])
                      /\ pc' = "filtered"
                      /\ UNCHANGED <<retry, waited, result, success, download_link, log, slow_queries, upload_reply, send_reply, sent, caught>>
  /\ UNCHANGED <<elsewhere, now, last_process_time, idx, history>>

\* `if new_queries:` and _generate_alert_file, which returns None when the
\* file cannot be written (the file's candidates and slow_queries are not
\* read again past this point of the call)
GenerateAlertFile ==
  /\ pc = "filtered"
  /\ IF NothingNew(new_queries)
       THEN /\ Return
            /\ UNCHANGED <<sent, effects>>
       ELSE /\ effects' = effects \cup {"alert_file"}
            /\ \/ /\ pc' = "upload"
                  /\ log' = <<>>
                  /\ slow_queries' = <<>>
                  /\ UNCHANGED <<retry, waited, result, success, download_link, new_queries, upload_reply, send_reply, sent>>
               \/ /\ Return
                  /\ UNCHANGED sent
  /\ UNCHANGED <<elsewhere, now, last_process_time, idx, caught, history>>

\* send_alert, first call: the upload of the file
UploadFile ==
  /\ pc = "upload"
  /\ effects' = effects \cup {"upload"}
  /\ \E reply \in WebhookReplies :
       /\ upload_reply' = reply
       /\ IF Errcode0(reply)
            THEN /\ pc' = "send"
                 /\ UNCHANGED <<sent, failed>>
            ELSE /\ pc' = "sent"
                 /\ sent' = FALSE
                 /\ failed' = IF FollowFailures THEN failed \cup RecordSet(new_queries) ELSE failed
  /\ UNCHANGED <<elsewhere, now, last_process_time, idx, retry, waited, result, success, download_link, log, slow_queries, new_queries, send_reply, caught, follow, delivered>>

\* send_alert, second call: the message that refers to the uploaded file
SendMessage ==
  /\ pc = "send"
  /\ effects' = effects \cup {"send"}
  /\ \E reply \in WebhookReplies :
       /\ send_reply' = reply
       /\ sent' = Errcode0(reply)
       /\ failed' = IF FollowFailures /\ ~Errcode0(reply) THEN failed \cup RecordSet(new_queries) ELSE failed
  /\ pc' = "sent"
  /\ UNCHANGED <<elsewhere, now, last_process_time, idx, retry, waited, result, success, download_link, log, slow_queries, new_queries, upload_reply, caught, follow, delivered>>

\* `if self.send_alert(...)`: the cursor moves to the latest delivered record
AdvanceCursor ==
  /\ pc = "sent"
  /\ last_process_time' = [last_process_time EXCEPT ![instance_id] = CursorAfterSend(@, sent, new_queries)]
  /\ effects' = IF sent THEN effects \cup {"advance"} ELSE effects
  /\ delivered' = IF sent /\ FollowDeliveries THEN delivered \cup RecordSet(new_queries)
                  ELSE IF sent /\ FollowLatest THEN Latest(RecordSet(new_queries))
                  ELSE delivered
  /\ failed' = IF sent /\ FollowFailures THEN failed \ RecordSet(new_queries) ELSE failed
  /\ Return
  /\ UNCHANGED <<elsewhere, now, idx, sent, caught, follow>>

\* run: the next instance of the for loop
NextInstance ==
  /\ pc = "done"
  /\ idx < Len(instances)
  /\ idx' = idx + 1
  /\ pc' = "wait"
  /\ effects' = {}
  /\ caught' = None
  /\ sent' = FALSE
  /\ UNCHANGED <<elsewhere, now, last_process_time, retry, waited, result, success, download_link, log, slow_queries, new_queries, upload_reply, send_reply, history>>

\* run: time.sleep(self.query_interval), then the next cycle
Sleep ==
  /\ pc = "done"
  /\ idx = Len(instances)
  /\ idx' = 1
  /\ pc' = "wait"
  /\ effects' = {}
  /\ caught' = None
  /\ sent' = FALSE
  /\ UNCHANGED <<elsewhere, now, last_process_time, retry, waited, result, success, download_link, log, slow_queries, new_queries, upload_reply, send_reply, history>>

\* ------------------------------------------------------------------------
\* KeyboardInterrupt in HuaweiRDSSlowSQLMonitor.run
\* ------------------------------------------------------------------------
Running == {"wait", "link", "download", "parse", "filter", "filtered", "upload", "send", "sent", "done"}

\* The interrupt is raised at the point where the program is: no
\* `except Exception` catches it, the call in progress is abandoned, and
\* `except KeyboardInterrupt` of run breaks out of the loop.
Interrupt ==
  /\ pc \in Running
  /\ pc' = "stopped"
  /\ Unwind
  /\ UNCHANGED <<elsewhere, now, last_process_time, idx, sent, effects, caught, history>>

Next ==
  \/ Tick
  \/ RequestDownloadLink
  \/ CheckDownloadLink
  \/ DownloadSlowLog
  \/ ParseSlowLog
  \/ FilterNewQueries
  \/ GenerateAlertFile
  \/ UploadFile
  \/ SendMessage
  \/ AdvanceCursor
  \/ NextInstance
  \/ Sleep
  \/ Interrupt

Spec == Init /\ [][Next]_vars
SpecDeliveries == InitDeliveries /\ [][Next]_vars
SpecFailures == InitFailures /\ [][Next]_vars
SpecAtMidnight == InitAtMidnight /\ [][Next]_vars

\* ------------------------------------------------------------------------
\* parse_slow_log on its own: two calls on one file that does not change,
\* while time passes
\* ------------------------------------------------------------------------
monitor == <<last_process_time, idx, locals, effects, caught, history>>

InitParsing(universe) ==
  /\ Started("parse_slow_log")
  /\ follow = "nothing"
  /\ file_lines \in universe
  /\ first_parse = NotCalled
  /\ second_parse = NotCalled
  /\ NotDownloading
  /\ AliyunOff
  /\ NoWindow

InitParse == InitParsing(SlowLogFiles)
InitParseDamaged == InitParsing(DamagedLogFiles)
InitParseText == InitParsing(TextLogFiles)

ParseFile ==
  /\ pc = "parse_slow_log"
  /\ first_parse' = Call(file_lines, now)
  /\ pc' = "parsed once"
  /\ UNCHANGED <<now, monitor, files, aliyun, window, file_lines, second_parse>>

ParseFileAgain ==
  /\ pc = "parsed once"
  /\ second_parse' = Call(file_lines, now)
  /\ pc' = "parsed twice"
  /\ UNCHANGED <<now, monitor, files, aliyun, window, file_lines, first_parse>>

NextParse ==
  \/ Tick
  \/ ParseFile
  \/ ParseFileAgain

SpecParse == InitParse /\ [][NextParse]_vars
SpecParseDamaged == InitParseDamaged /\ [][NextParse]_vars
SpecParseText == InitParseText /\ [][NextParse]_vars

\* ------------------------------------------------------------------------
\* download_slow_log on its own: any sequence of calls, for any instance
\* ------------------------------------------------------------------------
InitFiles ==
  /\ Started("download_slow_log")
  /\ follow = "nothing"
  /\ NotParsing
  /\ NotDownloading
  /\ AliyunOff
  /\ NoWindow

DownloadCall ==
  /\ pc = "download_slow_log"
  /\ \E inst \in Instances, outcome \in FetchOutcomes : \E link \in LinksOf(inst) :
       \E kept \in Undeletable(download_dir, OldFiles(download_dir, FileName(link, now))) :
         /\ download_dir' = DirAfterDownload(download_dir, inst, link, now, outcome, kept)
         /\ file_path' = PathReturned(link, now, outcome)
         /\ for_instance' = inst
         /\ old_files' = [new_file_name |-> FileName(link, now), removed |-> OldFiles(download_dir, FileName(link, now)) \ kept, failed |-> kept]
  /\ UNCHANGED <<now, pc, monitor, parsing, aliyun, window>>

NextFiles ==
  \/ Tick
  \/ DownloadCall

SpecFiles == InitFiles /\ [][NextFiles]_vars

\* ------------------------------------------------------------------------
\* RDSSlowSQLMonitor.run
\* ------------------------------------------------------------------------
InitAliyun ==
  /\ Started("off")
  /\ follow = "nothing"
  /\ NotParsing
  /\ NotDownloading
  /\ NoWindow
  /\ a_pc = "query"
  /\ a_idx = 1
  /\ slow_sql_records = NoRecords
  /\ db_groups = <<>>
  /\ temp_dir = {}
  /\ temp_file = NoFile
  /\ a_effects = {}
  /\ a_done = {}
  /\ a_caught = None
  /\ reports = <<>>
  /\ media_id = None

beside == <<now, pc, monitor, parsing, files, window>>
target == Targets[a_idx]

\* get_slow_sql_records, `if slow_sql_records:` and send_wechat_alert up to
\* the grouping of the items
GetSlowSqlRecords ==
  /\ a_pc = "query"
  /\ \E info \in ApiResults :
       /\ slow_sql_records' = info
       /\ IF ~Truthy(info) \/ NothingToAlert(info)
            THEN /\ a_pc' = "next"
                 /\ db_groups' = <<>>
            ELSE /\ db_groups' = GroupItems(<<>>, info.SQLSlowRecord)
                 /\ a_pc' = IF GroupItems(<<>>, info.SQLSlowRecord) = <<>> THEN "next" ELSE "write"
  /\ a_done' = a_done \cup {a_idx}
  /\ a_effects' = {}
  /\ reports' = <<>>
  /\ UNCHANGED <<beside, a_idx, temp_dir, temp_file, a_caught, media_id>>

\* send_wechat_alert: the file of the next group is written; an exception
\* raised while writing leaves send_wechat_alert and the for loops of run,
\* and is caught by `except Exception` of run
WriteAlertFile ==
  /\ a_pc = "write"
  /\ temp_dir' = temp_dir \cup {TempFile(target.instance_id, Head(db_groups).db_name, now)}
  /\ a_effects' = a_effects \cup {"file"}
  /\ IF WriteRaises(Head(db_groups)) = None
       THEN /\ a_pc' = "upload"
            /\ temp_file' = TempFile(target.instance_id, Head(db_groups).db_name, now)
            /\ reports' = Append(reports, Report(TempFile(target.instance_id, Head(db_groups).db_name, now), Head(db_groups)))
            /\ UNCHANGED <<db_groups, slow_sql_records, a_caught>>
       ELSE /\ a_pc' = "error sleep"
            /\ a_caught' = WriteRaises(Head(db_groups))
            /\ temp_file' = NoFile
            /\ db_groups' = <<>>
            /\ slow_sql_records' = NoRecords
            /\ reports' = <<>>
  /\ UNCHANGED <<beside, a_idx, a_done, media_id>>

\* upload_file: the media_id, or None
AliyunUploadFile ==
  /\ a_pc = "upload"
  /\ a_effects' = a_effects \cup {"upload"}
  /\ \E reply \in WebhookReplies :
       /\ media_id' = MediaId(reply)
       /\ a_pc' = IF MediaId(reply) # None THEN "send" ELSE "remove"
  /\ UNCHANGED <<beside, a_idx, slow_sql_records, db_groups, temp_dir, temp_file, a_done, a_caught, reports>>

\* `if media_id: self.send_file_message(...)`, whose result is not read
SendFileMessage ==
  /\ a_pc = "send"
  /\ a_effects' = a_effects \cup {"send"}
  /\ a_pc' = "remove"
  /\ UNCHANGED <<beside, a_idx, slow_sql_records, db_groups, temp_dir, temp_file, a_done, a_caught, reports, media_id>>

\* finally: os.remove(file_path), which removes the file or raises, and
\* then the failure is logged; then the next group
\* (NoRemoval: the finally clause missing)
NoRemoval(may_fail) ==
  /\ a_pc = "remove"
  /\ temp_file' = NoFile
  /\ db_groups' = Tail(db_groups)
  /\ a_pc' = IF Tail(db_groups) = <<>> THEN "next" ELSE "write"
  /\ media_id' = None
  /\ UNCHANGED <<beside, a_idx, slow_sql_records, temp_dir, a_effects, a_done, a_caught, reports>>
Removal(may_fail) ==
  /\ a_pc = "remove"
  /\ \/ /\ temp_dir' = temp_dir \ {temp_file}
        /\ UNCHANGED a_effects
     \/ /\ may_fail
        /\ UNCHANGED temp_dir
        /\ a_effects' = a_effects \cup {"remove failed"}
  /\ temp_file' = NoFile
  /\ db_groups' = Tail(db_groups)
  /\ a_pc' = IF Tail(db_groups) = <<>> THEN "next" ELSE "write"
  /\ media_id' = None
  /\ UNCHANGED <<beside, a_idx, slow_sql_records, a_done, a_caught, reports>>

\* ... in the run loop, where os.remove is taken to succeed
RemoveTempFile == Removal(FALSE)

\* run: the next query of the for loops, or the end of the cycle
NextTarget ==
  /\ a_pc = "next"
  /\ IF a_idx < Len(Targets)
       THEN /\ a_idx' = a_idx + 1
            /\ a_pc' = "query"
       ELSE /\ a_pc' = "sleep"
            /\ UNCHANGED a_idx
  /\ UNCHANGED <<beside, slow_sql_records, db_groups, temp_dir, temp_file, a_effects, a_done, a_caught, reports, media_id>>

\* the next cycle of `while True`
NewCycle ==
  /\ a_idx' = 1
  /\ a_pc' = "query"
  /\ slow_sql_records' = NoRecords
  /\ a_effects' = {}
  /\ a_done' = {}
  /\ a_caught' = None
  /\ reports' = <<>>
  /\ UNCHANGED <<beside, db_groups, temp_dir, temp_file, media_id>>

\* run: time.sleep(self.query_interval) at the end of the try block
AliyunSleep == a_pc = "sleep" /\ NewCycle

\* run: time.sleep(self.query_interval) in `except Exception`
SleepAfterError == a_pc = "error sleep" /\ NewCycle

\* KeyboardInterrupt.  Inside the try block of run it is caught by
\* `except KeyboardInterrupt` and the loop is left; the finally clause of
\* send_wechat_alert removes the file of the group in progress on the way.
\* In the sleep of `except Exception` nothing catches it: it leaves run,
\* and main, which catches Exception only.
AliyunInterrupt ==
  /\ a_pc \in {"query", "write", "upload", "send", "remove", "next", "sleep", "error sleep"}
  /\ a_pc' = IF a_pc = "error sleep" THEN "killed" ELSE "stopped"
  /\ temp_dir' = IF a_pc \in {"upload", "send"} THEN temp_dir \ {temp_file} ELSE temp_dir
  /\ temp_file' = NoFile
  /\ media_id' = None
  /\ UNCHANGED <<beside, a_idx, slow_sql_records, db_groups, a_effects, a_done, a_caught, reports>>

AliyunStep ==
  \/ GetSlowSqlRecords
  \/ WriteAlertFile
  \/ AliyunUploadFile
  \/ SendFileMessage
  \/ RemoveTempFile
  \/ NextTarget
  \/ AliyunSleep
  \/ SleepAfterError
  \/ AliyunInterrupt

\* either monitor, started alone
InitMonitors == Init \/ InitAliyun
NextMonitors == Next \/ AliyunStep
SpecMonitors == InitMonitors /\ [][NextMonitors]_vars

\* ------------------------------------------------------------------------
\* send_wechat_alert on its own: one call, with any query result
\* ------------------------------------------------------------------------
InitAlert ==
  /\ Started("off")
  /\ follow = "nothing"
  /\ NotParsing
  /\ NotDownloading
  /\ NoWindow
  /\ a_pc = "send_wechat_alert"
  /\ a_idx = 1
  /\ slow_sql_records \in AlertInfos
  /\ db_groups = <<>>
  /\ temp_dir = {}
  /\ temp_file = NoFile
  /\ a_effects = {}
  /\ a_done = {}
  /\ a_caught = None
  /\ reports = <<>>
  /\ media_id = None

\* send_wechat_alert from its first line to the grouping of the items; the
\* call returns at position "next"
SendWechatAlert ==
  /\ a_pc = "send_wechat_alert"
  /\ IF NothingToAlert(slow_sql_records)
       THEN /\ a_pc' = "next"
            /\ UNCHANGED db_groups
       ELSE /\ db_groups' = GroupItems(<<>>, slow_sql_records.SQLSlowRecord)
            /\ a_pc' = "write"
  /\ UNCHANGED <<beside, a_idx, slow_sql_records, temp_dir, temp_file, a_effects, a_done, a_caught, reports, media_id>>

NextAlert ==
  \/ SendWechatAlert
  \/ WriteAlertFile
  \/ AliyunUploadFile
  \/ SendFileMessage
  \/ Removal(TRUE)
  \/ AliyunInterrupt

SpecAlert == InitAlert /\ [][NextAlert]_vars

\* ------------------------------------------------------------------------
\* get_time_range on its own: a call, and a call one second later
\* ------------------------------------------------------------------------
InitWindow ==
  /\ Started("get_time_range")
  /\ follow = "nothing"
  /\ NotParsing
  /\ NotDownloading
  /\ AliyunOff
  /\ clock \in SecondsPerMinute..(SecondsPerMinute + MaxSeconds)
  /\ first_range = NoRange
  /\ second_range = NoRange
  /\ NoCycles

GetTimeRange ==
  /\ pc = "get_time_range"
  /\ first_range' = get_time_range(clock)
  /\ pc' = "one second passes"
  /\ UNCHANGED <<now, monitor, parsing, files, aliyun, clock, second_range, query_interval, occurred, reported, started>>

GetTimeRangeAgain ==
  /\ pc = "one second passes"
  /\ clock' = clock + 1
  /\ second_range' = get_time_range(clock + 1)
  /\ pc' = "called twice"
  /\ UNCHANGED <<now, monitor, parsing, files, aliyun, first_range, query_interval, occurred, reported, started>>

NextWindow ==
  \/ GetTimeRange
  \/ GetTimeRangeAgain

SpecWindow == InitWindow /\ [][NextWindow]_vars

\* ------------------------------------------------------------------------
\* The windows of successive cycles of RDSSlowSQLMonitor.run, for one
\* instance and one slow query that started at some instant.  The work of
\* a cycle is taken to last no time, so that a cycle starts query_interval
\* seconds after the one before it.
\* ------------------------------------------------------------------------
InitCycles ==
  /\ Started("cycle")
  /\ follow = "nothing"
  /\ NotParsing
  /\ NotDownloading
  /\ AliyunOff
  /\ clock \in SecondsPerMinute..(SecondsPerMinute + MaxSeconds)
  /\ first_range = NoRange
  /\ second_range = NoRange
  /\ query_interval \in QueryIntervals
  /\ occurred \in 0..(2 * SecondsPerMinute + MaxSeconds)
  /\ reported = 0
  /\ started = <<>>

\* one pass of the for loop: get_slow_sql_records with the window of
\* get_time_range, and send_wechat_alert on what it returned
RunCycle ==
  /\ pc = "cycle"
  /\ Len(started) < MaxCycles
  /\ first_range' = second_range
  /\ second_range' = get_time_range(clock)
  /\ reported' = AlertsAfter(reported, get_time_range(clock), occurred)
  /\ started' = Append(started, clock)
  /\ pc' = "sleep"
  /\ UNCHANGED <<now, monitor, parsing, files, aliyun, clock, query_interval, occurred>>

\* time.sleep(self.query_interval)
SleepInterval ==
  /\ pc = "sleep"
  /\ clock' = clock + query_interval
  /\ pc' = "cycle"
  /\ UNCHANGED <<now, monitor, parsing, files, aliyun, first_range, second_range, query_interval, occurred, reported, started>>

NextCycles ==
  \/ RunCycle
  \/ SleepInterval

SpecCycles == InitCycles /\ [][NextCycles]_vars

\* ------------------------------------------------------------------------
\* Properties
\* ------------------------------------------------------------------------
InSeq(q, qs) == \E k \in 1..Len(qs) : qs[k] = q
Later(qs, last_time) == {k \in 1..Len(qs) : Key(qs[k].timestamp) > Key(last_time)}
NthOf(S, n) == CHOOSE k \in S : Cardinality({j \in S : j < k}) = n - 1

\* C1: once the cursor filter of process_instance has run, new_queries holds
\* exactly the records of slow_queries whose timestamp is strictly later
\* than the instance's cursor, in the order they have in slow_queries; and
\* no step taken from the filter's position changes any cursor.
FilterKeepsExactlyLater ==
  /\ [](pc = "filtered" =>
          LET kept == Later(slow_queries, last_process_time[instance_id]) IN
            /\ Len(new_queries) = Cardinality(kept)
            /\ \A n \in 1..Len(new_queries) : new_queries[n] = slow_queries[NthOf(kept, n)])
  /\ [][pc = "filter" => last_process_time' = last_process_time]_vars

FilterSplitsBatch == pc = "filtered" /\ Len(slow_queries) = 2 /\ Len(new_queries) = 1

\* C2: a cursor changes only in the step taken right after send_alert has
\* returned success for that instance, and it never moves back.
CursorMonotone ==
  [][\A inst \in Instances :
       last_process_time'[inst] # last_process_time[inst] =>
         /\ pc = "sent" /\ sent /\ instance_id = inst
         /\ Comparable(last_process_time[inst], last_process_time'[inst])
         /\ Key(last_process_time'[inst]) >= Key(last_process_time[inst])]_vars

CursorAdvanced == "advance" \in effects /\ last_process_time[instance_id] # NowShanghai(0)

\* C3: the cursor filter raises for no timestamp the parser produces: a call
\* of process_instance that has reached the filter has caught no TypeError.
FilterNeverRaises == "filter" \in effects => caught = None

\* C4: a record of a batch whose delivery failed is in the batch of every
\* later cycle that reads a log still holding it, until it is delivered
\* (so that it is delivered as soon as a delivery succeeds), whatever the
\* clock does in between.
FailedRecordRetried ==
  /\ (pc = "filter" /\ instance_id = Watched) => \A q \in failed : InSeq(q, log) => InSeq(q, slow_queries)
  /\ (pc = "filtered" /\ instance_id = Watched) => \A q \in failed : InSeq(q, log) => InSeq(q, new_queries)

\* C5: no record of a batch that was delivered, with the cursor advanced, is
\* in the batch of a later cycle of the same instance.
NoRedelivery ==
  (pc \in {"filtered", "upload", "send", "sent"} /\ instance_id = Watched) =>
     \A q \in delivered : ~InSeq(q, new_queries)

DeliveredParsedAgain == pc = "filtered" /\ instance_id = Watched /\ \E q \in delivered : InSeq(q, slow_queries)

\* C6: send_alert returns success exactly when the upload and the message
\* were both answered with error code 0; the message is not sent unless the
\* upload was answered with error code 0; and after a failure the cursor
\* stays where it is.
SendAlertSucceedsOnBothCodes ==
  /\ [](pc = "sent" =>
          /\ sent <=> (upload_reply = "errcode_0" /\ send_reply = "errcode_0")
          /\ upload_reply # "errcode_0" => (send_reply = NoReply /\ "send" \notin effects))
  /\ [][(pc = "sent" /\ ~sent) => last_process_time' = last_process_time]_vars

SendFailedAfterUpload == pc = "sent" /\ upload_reply = "errcode_0" /\ send_reply = "exception"

\* C7: a poller that saw FAILED, or used up max_retries attempts, returns
\* no link; and when the poller returns without a usable link,
\* process_instance returns at once: nothing is downloaded, parsed or
\* delivered, nothing is raised, and the cursor stays where it is.
PollerFailureSkipsInstance ==
  /\ [](pc = "link" =>
          /\ effects = {"request"}
          /\ (result.status = "FAILED" \/ retry = max_retries) => (~success /\ download_link = None))
  /\ [][(pc = "link" /\ (~success \/ download_link \in {None, ""}) /\ pc' # "link") =>
          /\ pc' \in {"done", "stopped"}
          /\ effects' = effects
          /\ caught' = None
          /\ last_process_time' = last_process_time]_vars
  /\ []((pc = "done" /\ "download" \notin effects) => (effects = {"request"} /\ caught = None))

RetriesExhausted == pc = "link" /\ retry = max_retries

\* C8: whenever the response says FINISH and some entry of its list, at any
\* position, succeeded with a usable link, the poller returns success; and
\* whenever the poller returns success it returns a usable link.
FinishedExposesLink ==
  /\ (result.status = "FINISH" /\ \E k \in 1..Len(result.list) : result.list[k].status = "SUCCESS" /\ ~Falsy(result.list[k].file_link)) => (pc = "link" /\ success)
  /\ (pc = "link" /\ success) => ~Falsy(download_link)

\* C9 (as claimed): after a response that is neither FINISH nor FAILED the
\* poller goes on polling until max_retries attempts are used up; and a
\* poller that has already had a response fails only on a FAILED status or
\* when the attempts are used up.
StaysPending ==
  (pc \in {"wait", "link"} /\ result # NoResult /\ result.status \notin {"FINISH", "FAILED"}) =>
     IF retry < max_retries THEN pc = "wait" ELSE (pc = "link" /\ ~success)

PendingFailsOnStatusOnly ==
  /\ StaysPending
  /\ (pc = "link" /\ ~success /\ retry >= 1) => (result.status = "FAILED" \/ retry = max_retries)

\* C9 (amended): after a response that is neither FINISH nor FAILED the
\* poller goes on polling until max_retries attempts are used up; the
\* poller fails only on a FAILED status, when the attempts are used up, or
\* when a request, the first or a later one, ends in a transport or API
\* error.
PollerFailsOnStatusRetriesOrError ==
  /\ StaysPending
  /\ (pc = "link" /\ ~success) => (result.status = "FAILED" \/ retry = max_retries \/ result = NoResult)
  /\ (pc = "wait" /\ retry >= 1) => result # NoResult

ErrorWhilePending == pc = "link" /\ retry >= 1 /\ result = NoResult

\* C10: the parser keeps a candidate exactly when its timestamp, read in
\* Asia/Shanghai, falls on today's date in Asia/Shanghai (a timestamp
\* written without an offset being a Shanghai reading).
ShanghaiDate(t) == IF t.aware THEN (Key(t) + ShanghaiOffset) \div TicksPerDay ELSE Date(t)

AcceptsExactlyTodayInShanghai ==
  [][(pc = "parse" /\ pc' = "filter") =>
       \A k \in 1..Len(log') : InSeq(log'[k], slow_queries') <=> (ShanghaiDate(log'[k].timestamp) = Today(now))]_vars

\* The lines of a file read as the log format intends: the segment of a time
\* marker runs from the marker to the line before the next marker.
Markers(lines) == {i \in 1..Len(lines) : lines[i].kind = "# Time:"}
SegmentOf(lines, i) == {k \in (i + 1)..Len(lines) : \A m \in Markers(lines) : m <= i \/ k < m}
LinesOfKind(lines, i, kind) == {k \in SegmentOf(lines, i) : lines[k].kind = kind}
Last(S) == CHOOSE k \in S : \A j \in S : j <= k
MarkerTime(lines, i) == Fromisoformat(lines[i].rest).value
SqlTextOf(lines, i) == LET S == LinesOfKind(lines, i, "sql") IN Join([n \in 1..Cardinality(S) |-> lines[NthOf(S, n)].rest])
HasMetrics(lines, i) == LinesOfKind(lines, i, "# Query_time:") # {}
\* the record that the segment of marker i describes
RecordOf(lines, i) ==
  [timestamp |-> MarkerTime(lines, i),
   user_host |-> IF LinesOfKind(lines, i, "# User@Host:") = {} THEN "" ELSE lines[Last(LinesOfKind(lines, i, "# User@Host:"))].rest,
   query_time |-> IF HasMetrics(lines, i) THEN 3 ELSE 0,
   lock_time |-> 0,
   rows_sent |-> 0,
   rows_examined |-> IF HasMetrics(lines, i) THEN 100 ELSE 0,
   thread_id |-> "",
   sql_text |-> SqlTextOf(lines, i),
   start_time |-> MarkerTime(lines, i),
   full_scan |-> LinesOfKind(lines, i, "# QC_Hit:") # {}]
\* the markers whose segment holds SQL text and whose date is the day of the call
Emitted(lines, day) == {i \in Markers(lines) : LinesOfKind(lines, i, "sql") # {} /\ Date(MarkerTime(lines, i)) = day}
Ascending(qs) == \A j, k \in 1..Len(qs) : j < k => Key(qs[j].timestamp) <= Key(qs[k].timestamp)
Completed(call) == call.called /\ call.out.raised = None

\* C11: a call of parse_slow_log that returns gives exactly one record for
\* each time marker that has SQL text before the next marker (or the end of
\* the file) and is dated today, with the marker's timestamp, the values of
\* the header lines of its segment and defaults elsewhere; and the records
\* returned are in ascending order of timestamp whatever their order in
\* the file.
OneRecordPerMarkerSorted ==
  Completed(first_parse) =>
    LET out == first_parse.out.slow_queries
        expected == Emitted(file_lines, first_parse.day)
    IN /\ Len(out) = Cardinality(expected)
       /\ \A i \in expected : Cardinality({k \in 1..Len(out) : out[k] = RecordOf(file_lines, i)}) = Cardinality({j \in expected : RecordOf(file_lines, j) = RecordOf(file_lines, i)})
       /\ Ascending(out)

\* a file whose later record comes first has been parsed into two records
ParsedOutOfOrderFile ==
  /\ Completed(first_parse)
  /\ Len(first_parse.out.slow_queries) = 2
  /\ file_lines[1] = Line("# Time:", "2024-01-01T16:00:00")
  /\ first_parse.out.slow_queries[1].timestamp = Naive(1)

\* C12 (as claimed): parse_slow_log raises no exception because of a
\* malformed line (a time marker without an ISO date, a header key with no
\* value, a numeral such as 1.2.3, a malformed Start value): every call
\* returns a list.
MalformedLineNeverRaises == first_parse.called => first_parse.out.raised = None

TodayMarkers(lines, day) == {i \in Markers(lines) : Date(MarkerTime(lines, i)) = day}

\* C13 (as claimed): every time marker dated today gives a record, whether
\* or not an SQL text line follows it.
EveryTodayMarkerGivesRecord ==
  Completed(first_parse) => Len(first_parse.out.slow_queries) = Cardinality(TodayMarkers(file_lines, first_parse.day))

\* C13 (amended): every time marker dated today that has at least one SQL
\* text line before the next marker gives a record with the marker's
\* timestamp and that SQL text, in which the user/host, the metrics, the
\* start time and the flags that the segment does not give have their
\* defaults ('', 0, the timestamp, False).
MarkerWithSqlGivesRecord ==
  Completed(first_parse) =>
    \A i \in Emitted(file_lines, first_parse.day) :
      \E k \in 1..Len(first_parse.out.slow_queries) :
        LET q == first_parse.out.slow_queries[k] IN
          /\ q.timestamp = MarkerTime(file_lines, i)
          /\ q.sql_text = SqlTextOf(file_lines, i)
          /\ LinesOfKind(file_lines, i, "# User@Host:") = {} => q.user_host = ""
          /\ ~HasMetrics(file_lines, i) => q.query_time = 0 /\ q.lock_time = 0 /\ q.rows_sent = 0 /\ q.rows_examined = 0 /\ q.thread_id = ""
          /\ q.start_time = q.timestamp
          /\ LinesOfKind(file_lines, i, "# QC_Hit:") = {} => q.full_scan = FALSE

\* a file of a marker and one SQL line only has given its record
BareRecordReturned ==
  /\ Completed(first_parse)
  /\ Len(file_lines) = 2
  /\ Len(first_parse.out.slow_queries) = 1
  /\ first_parse.out.slow_queries[1].user_host = ""
  /\ first_parse.out.slow_queries[1].query_time = 0

\* C14 (as claimed): two calls on the same file have the same outcome,
\* whatever time passes between them.
ParseIdempotent == first_parse.called /\ second_parse.called => first_parse.out = second_parse.out

\* C14 (amended): two calls on the same file made on the same civil day of
\* Asia/Shanghai have the same outcome (the same list, or the same
\* exception), whatever time of that day each is made at.
ParseIdempotentWithinDay ==
  first_parse.called /\ second_parse.called /\ first_parse.day = second_parse.day => first_parse.out = second_parse.out

\* a file has been parsed twice on the same day, into a record each time
ParsedTwiceSameDay ==
  /\ Completed(first_parse)
  /\ Completed(second_parse)
  /\ first_parse.day = second_parse.day
  /\ first_parse.out.slow_queries # <<>>

FilesOf(dir, inst) == {f \in dir : f.owner = inst}

\* C15 (as claimed): after any sequence of download_slow_log calls the
\* directory holds at most one file per instance; and a call that writes a
\* new file removes every file downloaded before for the same instance,
\* and no call removes a file of another instance.
OneFilePerInstance ==
  /\ [](\A inst \in Instances : Cardinality(FilesOf(download_dir, inst)) <= 1)
  /\ [][download_dir' # download_dir =>
          /\ \A f \in download_dir : f.owner # for_instance' => f \in download_dir'
          /\ download_dir' \ download_dir # {} => \A f \in FilesOf(download_dir, for_instance') : f \notin download_dir']_vars

\* C16: when the fetch fails, before the file is opened or in the middle
\* of the streamed write, download_slow_log returns None and
\* process_instance returns at once: the cursor is as before, and nothing
\* is parsed, built or sent for the instance in that cycle.
FailedDownloadEndsChain ==
  /\ []("download" \in effects /\ "fetched" \notin effects =>
          /\ pc \in {"done", "stopped"}
          /\ effects \cap {"parse", "filter", "alert_file", "upload", "send", "advance"} = {}
          /\ caught = None)
  /\ []["download" \in effects' /\ "fetched" \notin effects' => last_process_time' = last_process_time]_vars

\* a fetch of the first instance has left a partial file and no path
PartialFileNotParsed == pc = "done" /\ "partial file" \in effects /\ idx = 1

\* C17: when the parser returns no record or the cursor filter keeps none,
\* process_instance returns without building a report, without calling
\* the webhook and without moving the cursor; and when the records of a
\* query are missing or empty, send_wechat_alert writes no file, uploads
\* nothing and sends nothing.
NothingToSendSendsNothing ==
  /\ [][(pc = "filter" /\ slow_queries = <<>>) \/ (pc = "filtered" /\ new_queries = <<>>) =>
          /\ pc' \in {pc, "done", "stopped"}
          /\ effects' = effects
          /\ last_process_time' = last_process_time]_vars
  /\ []("alert_file" \notin effects => effects \cap {"upload", "send", "advance"} = {})
  /\ [](a_pc = "next" /\ (slow_sql_records.body # "Items" \/ slow_sql_records.SQLSlowRecord = <<>>) =>
          /\ a_effects = {}
          /\ temp_file = NoFile
          /\ db_groups = <<>>)

\* the cursor filter has kept none of the records parsed
EmptyFilterOutput == pc = "filtered" /\ new_queries = <<>> /\ slow_queries # <<>>

\* C18 (as claimed): a failure in the chain of one instance is caught and
\* the instances after it are still processed in the same cycle: whenever
\* the loop reaches its sleep, every configured instance has been queried
\* in the cycle; and an exception caught in process_instance leaves the
\* loop running.
FailureKeepsCycleGoing ==
  /\ a_pc \in {"sleep", "error sleep"} => a_done = 1..Len(Targets)
  /\ caught # None => pc \in {"done", "stopped"}

\* C19 (as claimed): a KeyboardInterrupt ends the loop after the unit of
\* work in progress: a batch that was delivered has its cursor advanced,
\* no group of the query in progress is left unsent, and the interrupt
\* never leaves run uncaught, also in the sleep that follows an error.
StopsAfterUnitOfWork ==
  /\ pc = "stopped" /\ sent => "advance" \in effects
  /\ a_pc = "stopped" => db_groups = <<>>
  /\ a_pc # "killed"

Duration(range) == range.end_time - range.start_time
EndsApart == second_range.end_time - first_range.end_time

\* C20 (as claimed): the window that get_time_range returns lasts exactly
\* one minute, whenever it is called; and the end values of two calls made
\* one second apart differ by about one second (by two seconds at most).
WindowEndFollowsClock ==
  /\ first_range.called => Duration(first_range) = SecondsPerMinute
  /\ second_range.called => EndsApart \in 0..2

\* C20 (amended): the window lasts exactly one minute, whenever the call is
\* made; the end values of two calls made one second apart are equal, or
\* differ by exactly one minute when the second call is made at the first
\* second of a minute.
WindowEndFollowsMinute ==
  /\ first_range.called => Duration(first_range) = SecondsPerMinute
  /\ second_range.called =>
       /\ Duration(second_range) = SecondsPerMinute
       /\ EndsApart = (IF clock % SecondsPerMinute = 0 THEN SecondsPerMinute ELSE 0)

\* two calls one second apart, with the start of a minute between them
CalledAcrossMinute == second_range.called /\ EndsApart = SecondsPerMinute

\* the database a record belongs to, and the records of a database in the
\* order of the query result
OwnName(item) == IF item.DBName = None THEN "Unknown" ELSE item.DBName
OfDatabase(items, name) == SelectSeq(items, LAMBDA item : OwnName(item) = name)

\* C21: send_wechat_alert partitions the records of a query result by
\* database name: every report written holds exactly the records of its
\* database (a record without DBName belonging to 'Unknown'), in the order
\* of the query result, and states their number; no two reports are of the
\* same database; and when the call returns there is a report for every
\* database that a record names.
ReportsPartitionByDatabase ==
  LET items == slow_sql_records.SQLSlowRecord IN
    /\ \A k \in 1..Len(reports) :
         /\ reports[k].items = OfDatabase(items, reports[k].db_name)
         /\ reports[k].count = Len(OfDatabase(items, reports[k].db_name))
         /\ \A j \in 1..Len(reports) : j # k => reports[j].db_name # reports[k].db_name
    /\ a_pc = "next" => {reports[k].db_name : k \in 1..Len(reports)} = {OwnName(items[i]) : i \in 1..Len(items)}

\* a call has returned after reporting three records in two groups, the
\* second record, without DBName, between the two records of the first group
InterleavedGroupsReported ==
  /\ a_pc = "next"
  /\ Len(slow_sql_records.SQLSlowRecord) = 3
  /\ slow_sql_records.SQLSlowRecord[2].DBName = None
  /\ Len(reports) = 2
  /\ reports[1].count = 2
  /\ reports[2].db_name = "Unknown"

\* the minute of an instant, and whether the minute before the minute of
\* a cycle's instant holds an instant
MinuteOf(t) == (t \div SecondsPerMinute) * SecondsPerMinute
CoveredBy(t, q) == MinuteOf(t) - SecondsPerMinute <= q /\ q < MinuteOf(t)

\* C22: the window of every cycle lasts one minute, whatever
\* query_interval is, and is a function of the clock alone; a slow query
\* is reported once by every cycle whose window holds it, since nothing is
\* kept from one cycle to the next.  With query_interval above a minute
\* the windows of successive cycles never overlap, and they leave a gap
\* unless they are adjacent; with query_interval below a minute the window
\* of a cycle is the window of the cycle before it, or the minute after it.
WindowsIgnoreInterval ==
  /\ second_range.called => Duration(second_range) = SecondsPerMinute /\ second_range.end_time = MinuteOf(started[Len(started)])
  /\ first_range.called => Duration(first_range) = SecondsPerMinute
  /\ \A k \in 2..Len(started) : started[k] - started[k - 1] = query_interval
  /\ reported = Cardinality({k \in 1..Len(started) : CoveredBy(started[k], occurred)})
  /\ first_range.called /\ query_interval > SecondsPerMinute => second_range.start_time >= first_range.end_time
  /\ first_range.called /\ query_interval < SecondsPerMinute => second_range.start_time \in {first_range.start_time, first_range.end_time}

\* query_interval is above a minute; a slow query that started between two
\* cycles was in the window of neither, and is before the window of every
\* cycle to come
MissedBetweenCycles ==
  /\ query_interval > SecondsPerMinute
  /\ Len(started) = MaxCycles
  /\ started[1] < occurred /\ occurred < started[2]
  /\ reported = 0
  /\ occurred < second_range.start_time

\* query_interval is below a minute; a slow query was in the windows of
\* two cycles and was reported by both
ReportedTwice ==
  /\ query_interval < SecondsPerMinute
  /\ first_range.called /\ first_range = second_range
  /\ InWindow(first_range, occurred)
  /\ reported = 2

\* C23 (as claimed): wait_for_download_link makes at most max_retries
\* requests, has slept retry_interval seconds for each unresolved response
\* and no more, and returns success with a link, or failure with no link.
PollerReturnsLinkOrNone ==
  /\ retry <= max_retries
  /\ pc = "wait" => retry < max_retries
  /\ waited = retry * retry_interval
  /\ pc = "link" => ((success /\ download_link \notin {None, ""}) \/ (~success /\ download_link = None))

\* what holds of it: the call ends within max_retries requests with
\* a fixed wait after each unresolved response, and failure comes with no
\* link (success comes with whatever file_link the first entry carries)
PollerWithinBudget ==
  /\ retry <= max_retries
  /\ pc = "wait" => retry < max_retries
  /\ waited = retry * retry_interval
  /\ pc = "link" /\ ~success => download_link = None

\* C24: when process_instance advances the cursor of an instance, the new
\* value is the timestamp of a record of the batch just delivered, no
\* record of the batch is later, and it is strictly later than the value
\* before; every record of a batch that is delivered is strictly later
\* than the start of the monitor, and strictly later than the latest
\* records of the batch delivered before it for the instance (and so,
\* batch after batch, than every record delivered before).
CursorIsBatchMaximum ==
  /\ [][(pc = "sent" /\ sent /\ pc' = "done") =>
          /\ \E k \in 1..Len(new_queries) : new_queries[k].timestamp = last_process_time'[instance_id]
          /\ \A k \in 1..Len(new_queries) : Key(new_queries[k].timestamp) <= Key(last_process_time'[instance_id])
          /\ Comparable(last_process_time[instance_id], last_process_time'[instance_id])
          /\ Key(last_process_time'[instance_id]) > Key(last_process_time[instance_id])]_vars
  /\ []((pc = "sent" /\ sent) =>
          \A k \in 1..Len(new_queries) : new_queries[k].timestamp.aware /\ Key(new_queries[k].timestamp) > Midnight)
  /\ []((pc = "sent" /\ sent /\ instance_id = Watched) =>
          \A q \in delivered : \A k \in 1..Len(new_queries) : Key(new_queries[k].timestamp) > Key(q.timestamp))

\* send_alert has returned True for a batch of two records of different
\* instants, the later one last
TwoInstantsDelivered ==
  /\ pc = "sent" /\ sent /\ instance_id = Watched
  /\ Len(new_queries) = 2
  /\ Key(new_queries[1].timestamp) < Key(new_queries[2].timestamp)

\* the text of the segment of marker i: its lines of the given kinds, as
\* the file has them or stripped, joined by line breaks
TextOf(lines, i, kinds, stripped) ==
  LET S == {k \in SegmentOf(lines, i) : lines[k].kind \in kinds}
  IN Join([n \in 1..Cardinality(S) |-> IF stripped THEN Strip(lines[NthOf(S, n)].rest) ELSE lines[NthOf(S, n)].rest])

\* C25 (as claimed): the SQL text of the n-th record is the lines, as the
\* file has them, between its marker and the next that are neither
\* comments, nor lines of the banner, nor the SET timestamp statement,
\* joined in order by line breaks; lines before the first marker belong to
\* no record.
SqlTextIsSegmentVerbatim ==
  Completed(first_parse) =>
    LET out == first_parse.out.slow_queries
        expected == Emitted(file_lines, first_parse.day)
    IN /\ Len(out) = Cardinality(expected)
       /\ \A n \in 1..Len(out) : out[n].sql_text = TextOf(file_lines, NthOf(expected, n), {"sql", ""}, FALSE)

\* C25 (amended): the SQL text of the n-th record is the stripped,
\* non-blank lines between its marker and the next that are neither
\* comments, nor lines of the banner, nor the SET timestamp statement,
\* joined in order by line breaks; lines before the first marker belong to
\* no record, and comments of no known prefix change nothing.
SqlTextIsSegmentStripped ==
  Completed(first_parse) =>
    LET out == first_parse.out.slow_queries
        expected == Emitted(file_lines, first_parse.day)
    IN /\ Len(out) = Cardinality(expected)
       /\ \A n \in 1..Len(out) : out[n].sql_text = TextOf(file_lines, NthOf(expected, n), {"sql"}, TRUE)

\* a file that starts with a statement before any marker has given one
\* record, whose text is the two lines after the marker, the second
\* without its indentation
TextOfTwoLinesReturned ==
  /\ Completed(first_parse)
  /\ Len(file_lines) > 2
  /\ file_lines[1].kind = "sql"
  /\ Len(first_parse.out.slow_queries) = 1
  /\ first_parse.out.slow_queries[1].sql_text = "select sleep(3)\nfrom t;"

\* the files that the directory holds under another name than that of the
\* new file, and that the last call did not fail to remove
OtherFilesLeft == {f \in download_dir : f.name # old_files.new_file_name /\ f \notin old_files.failed}

DownloadedDespiteFailedRemoval ==
  /\ file_path # None
  /\ old_files.failed # {}

\* the files of the reports of the call that are in the temp directory
ReportFilesLeft == {reports[k].file : k \in 1..Len(reports)} \cap temp_dir

\* C27 (as claimed): for every report whose file was written whole,
\* send_wechat_alert calls send_file_message only with a media_id, and the
\* file is removed afterwards, whatever upload and send have done; when
\* send_wechat_alert has returned, no file of its reports is in the temp
\* directory.
TempFilesAlwaysRemoved ==
  /\ [](a_pc = "send" => media_id # None)
  /\ [](a_pc = "next" => ReportFilesLeft = {})
  /\ [][a_pc = "remove" /\ a_pc' \in {"write", "next"} => temp_file \notin temp_dir']_vars

\* C27 (amended): for every report whose file was written whole,
\* send_wechat_alert calls send_file_message only with a media_id, the file
\* is in the temp directory until then, and afterwards os.remove is
\* called on it, whatever upload and send have done: the file is removed,
\* or the failure of os.remove is logged; when send_wechat_alert has
\* returned and no such failure is logged, no file of its reports is in
\* the temp directory.
TempFilesRemovedUnlessRemoveFails ==
  /\ [](a_pc = "send" => media_id # None)
  /\ [](a_pc \in {"upload", "send", "remove"} =>
          /\ Len(reports) > 0
          /\ temp_file = reports[Len(reports)].file
          /\ temp_file \in temp_dir)
  /\ [](a_pc = "next" /\ "remove failed" \notin a_effects => ReportFilesLeft = {})
  /\ [][a_pc = "remove" /\ a_pc' \in {"write", "next"} =>
          \/ temp_dir' = temp_dir \ {temp_file}
          \/ temp_dir' = temp_dir /\ "remove failed" \in a_effects']_vars

\* send_wechat_alert has returned after two reports whose upload gave no
\* media_id: nothing was sent, and both files are removed
TwoFilesRemovedAfterFailedUploads ==
  /\ a_pc = "next"
  /\ Len(reports) > 1
  /\ "upload" \in a_effects
  /\ a_effects \cap {"send", "remove failed"} = {}
  /\ temp_dir = {}

====
